---- MODULE Spec2Model ----
(***************************************************************************)
(* Riemann sums of functions of several real variables (JacobLee23/riemann) *)
(*                                                                         *)
(* The model covers the four summation engines of the repository:          *)
(*   "riemann"      rsum         of src/riemann/riemann.py                 *)
(*   "summation"    rsum         of src/riemann/summation.py               *)
(*   "_summation"   summation    of src/riemann/_summation.py              *)
(*   "riemann_sum"  riemann_sum  of src/riemann.py                         *)
(* and trapezoidal_rule of src/riemann.py, which drives riemann_sum.       *)
(*                                                                         *)
(* Numbers are decimal.Decimal values: a coefficient m and an exponent e   *)
(* (value m * 10^e), every operation rounded half-even to the precision of *)
(* the decimal context.  The field x of a value records that an operation  *)
(* that produced it, or one of its operands, was inexact (the context's    *)
(* Inexact signal).  Python's context has 28 digits; the model keeps the   *)
(* same arithmetic with Prec digits.                                       *)
(***************************************************************************)
EXTENDS Integers, Sequences, FiniteSets, TLC

\* Digits of the decimal context (decimal.getcontext().prec), scaled down.
Prec == 3

\* Largest partition count drawn for a dimension.
MaxN == 3

----------------------------------------------------------------------------
(* decimal.Decimal arithmetic                                              *)

Abs(i) == IF i < 0 THEN 0 - i ELSE i

Sign(i) == IF i < 0 THEN 0 - 1 ELSE 1

RECURSIVE Pow10(_)
Pow10(k) == IF k <= 0 THEN 1 ELSE 10 * Pow10(k - 1)

\* len(str(abs(m))): number of decimal digits of a coefficient (1 for 0)
RECURSIVE Digits(_)
Digits(m) == IF Abs(m) < 10 THEN 1 ELSE 1 + Digits(Abs(m) \div 10)

\* Decimal(int): an int is a Decimal of exponent 0
D(i) == [m |-> i, e |-> 0, x |-> FALSE]

\* The context rounding (Decimal._fix, ROUND_HALF_EVEN) of m * 10^e to Prec
\* digits; inx is the Inexact signal inherited from the operands.
Rounded(m, e, inx) ==
    LET d == Digits(m) - Prec IN
    IF d <= 0 THEN [m |-> m, e |-> e, x |-> inx]
    ELSE LET q    == Abs(m) \div Pow10(d)
             r    == Abs(m) % Pow10(d)
             half == 5 * Pow10(d - 1)
             up   == IF r > half \/ (r = half /\ q % 2 = 1) THEN 1 ELSE 0
             q2   == q + up
         IN IF q2 = Pow10(Prec)
            THEN [m |-> Sign(m) * (q2 \div 10), e |-> e + d + 1, x |-> inx \/ r # 0]
            ELSE [m |-> Sign(m) * q2, e |-> e + d, x |-> inx \/ r # 0]

\* _fix is called on a coefficient and an exponent that have been computed:
\* the operands are values, each evaluated once
Fix(m, e, inx) ==
    CHOOSE r \in {Rounded(m0, e0, x0) : m0 \in {m}, e0 \in {e}, x0 \in {inx}} : TRUE

Min(i, j) == IF i <= j THEN i ELSE j

\* Decimal.__add__: exact sum at the smaller exponent, then rounded
Sum(u, v) ==
    LET e == Min(u.e, v.e)
    IN Fix(u.m * Pow10(u.e - e) + v.m * Pow10(v.e - e), e, u.x \/ v.x)

\* the operands of an addition are values, each evaluated once
DAdd(u, v) ==
    CHOOSE r \in {Sum(u0, v0) : u0 \in {u}, v0 \in {v}} : TRUE

\* Decimal.__neg__ / __sub__
DNeg(u) == [u EXCEPT !.m = 0 - u.m]

DSub(u, v) == DAdd(u, DNeg(v))

\* Decimal.__mul__: exact product, then rounded
Product(u, v) == Fix(u.m * v.m, u.e + v.e, u.x \/ v.x)

\* the operands of a multiplication are values, each evaluated once
DMul(u, v) ==
    CHOOSE r \in {Product(u0, v0) : u0 \in {u}, v0 \in {v}} : TRUE

\* An exact quotient is brought back towards the ideal exponent
RECURSIVE Reduce(_, _, _)
Reduce(c, e, ideal) ==
    IF e < ideal /\ c # 0 /\ c % 10 = 0 THEN Reduce(c \div 10, e + 1, ideal)
    ELSE <<c, e>>

\* Decimal.__truediv__ for a non-zero divisor: Prec + 1 digits of quotient,
\* a sticky last digit when the division leaves a remainder, then rounded
Quotient(u, v) ==
    IF u.m = 0 THEN [m |-> 0, e |-> u.e - v.e, x |-> u.x \/ v.x]
    ELSE
    LET num   == Abs(u.m)
        den   == Abs(v.m)
        sgn   == Sign(u.m) * Sign(v.m)
        shift == Digits(den) - Digits(num) + Prec + 1
        e     == u.e - v.e - shift
        top   == IF shift >= 0 THEN num * Pow10(shift) ELSE num
        bot   == IF shift >= 0 THEN den ELSE den * Pow10(0 - shift)
        c     == top \div bot
        rem   == top % bot
    IN IF rem # 0
       THEN Fix(sgn * (IF c % 5 = 0 THEN c + 1 ELSE c), e, TRUE)
       ELSE LET ce == Reduce(c, e, u.e - v.e)
            IN Fix(sgn * ce[1], ce[2], u.x \/ v.x)

\* the operands of a division are values, each evaluated once
DDiv(u, v) ==
    CHOOSE r \in {Quotient(u0, v0) : u0 \in {u}, v0 \in {v}} : TRUE

\* Decimal.normalize: trailing zeros of the coefficient are stripped
RECURSIVE Strip(_, _)
Strip(m, e) ==
    IF m # 0 /\ m % 10 = 0 THEN Strip(m \div 10, e + 1) ELSE <<m, e>>

Normalize(u) ==
    IF u.m = 0 THEN [m |-> 0, e |-> 0, x |-> u.x]
    ELSE LET s == Strip(u.m, u.e) IN [m |-> s[1], e |-> s[2], x |-> u.x]

\* Decimal.__eq__ compares values, not representations
DEq(u, v) ==
    LET e == Min(u.e, v.e)
    IN u.m * Pow10(u.e - e) = v.m * Pow10(v.e - e)

----------------------------------------------------------------------------
(* The functions of several variables handed to the engines                *)

\* lambda: 1 / lambda x: 0, 1, x, 1 + 2 * x / lambda x, y: 0, 1, x, y, x * y /
\* lambda *args: 0
Funcs0 == {"k0"}
Funcs1 == {"zero1", "one1", "id1", "lin1"}
Funcs2 == {"zero2", "one2", "px", "py", "xy"}
FuncsV == {"zerov"}
Funcs  == Funcs0 \cup Funcs1 \cup Funcs2 \cup FuncsV

\* len(inspect.signature(func).parameters): *args is one parameter
NParams(f) ==
    IF f \in Funcs0 THEN 0
    ELSE IF f \in Funcs1 \cup FuncsV THEN 1
    ELSE 2

\* Whether the call func(*v) binds: the positional count fits the signature
Binds(f, v) == f \in FuncsV \/ Len(v) = NParams(f)

\* func(*v) for a tuple v of Decimals that binds
Apply(f, v) ==
    CASE f = "k0"    -> D(1)
      [] f = "zero1" -> D(0)
      [] f = "one1"  -> D(1)
      [] f = "id1"   -> v[1]
      [] f = "lin1"  -> DAdd(D(1), DMul(D(2), v[1]))
      [] f = "zero2" -> D(0)
      [] f = "one2"  -> D(1)
      [] f = "px"    -> v[1]
      [] f = "py"    -> v[2]
      [] f = "xy"    -> DMul(v[1], v[2])
      [] f = "zerov" -> D(0)

----------------------------------------------------------------------------
(* Sampling rules                                                          *)

\* summation.py / _summation.py: LOWER, MIDDLE (MIDPOINT), UPPER = -1, 0, 1
LOWER  == 0 - 1
MIDDLE == 0
UPPER  == 1

\* a tag that is none of the three
BadTag == UPPER + 1

\* Decimal(str(v) if isinstance(v, float) else v) for the int bounds drawn here
ToDecimal(v) == D(v)

\* riemann/riemann.py: the lambdas of LEFT, MIDDLE, RIGHT (x.lower is lo)
MethodFuncShifted(r, lo, i, d) ==
    CASE r = LOWER  -> DAdd(lo, DMul(D(i + 1), d))
      [] r = MIDDLE -> DAdd(lo, DMul(DDiv(D(2 * i + 1), D(2)), d))
      [] r = UPPER  -> DAdd(lo, DMul(D(i + 1), d))

MethodFunc(r, lo, i, d) ==
    CASE r = LOWER  -> DAdd(lo, DMul(D(i), d))
      [] r = MIDDLE -> DAdd(lo, DMul(DDiv(D(2 * i + 1), D(2)), d))
      [] r = UPPER  -> DAdd(lo, DMul(D(i + 1), d))

\* Method.partitions: (self.func(interval, i, delta) for i in range(n))
MethodPartitionsShort(r, lo, n, d) ==
    [j \in 1 .. (IF n > 1 THEN n - 1 ELSE 0) |-> MethodFunc(r, lo, j - 1, d)]

MethodPartitions(r, lo, n, d) ==
    [j \in 1 .. (IF n > 0 THEN n ELSE 0) |-> MethodFunc(r, lo, j - 1, d)]

\* summation.py _partition_values: the value yielded at index i
PartitionValueWhole(method, lo, i, d) ==
    CASE method = LOWER  -> DAdd(lo, DMul(D(i), d))
      [] method = MIDDLE -> DAdd(lo, DMul(D(2 * i + 1), d))
      [] method = UPPER  -> DAdd(lo, DMul(D(i + 1), d))

PartitionValue(method, lo, i, d) ==
    CASE method = LOWER  -> DAdd(lo, DMul(D(i), d))
      [] method = MIDDLE -> DAdd(lo, DMul(DDiv(D(2 * i + 1), D(2)), d))
      [] method = UPPER  -> DAdd(lo, DMul(D(i + 1), d))

\* _partition_values raises ValueError at the first index of an unknown tag
KnownTag(method) == method \in {LOWER, MIDDLE, UPPER}

\* _partition_values consumed to its end (tuple(generator))
PartitionValues(method, lo, n, d) ==
    [j \in 1 .. (IF n > 0 THEN n ELSE 0) |-> PartitionValue(method, lo, j - 1, d)]

\* _summation.py displacements: the list built from the generator it returns
Displacements(mode, lo, n, dx) ==
    [j \in 1 .. (IF n > 0 THEN n ELSE 0) |->
        CASE mode = MIDDLE -> DAdd(lo, DMul(D(2 * (j - 1) + 1), dx))
          [] mode = LOWER  -> DAdd(lo, DMul(D(j - 1), dx))
          [] mode = UPPER  -> DAdd(lo, DMul(D(j), dx))]

\* src/riemann.py Left / Middle / Right __call__(lower, length)
RSumMethodCall(r, lower, length) ==
    CASE r = LOWER  -> lower
      [] r = MIDDLE -> DAdd(lower, DDiv(length, D(2)))
      [] r = UPPER  -> DAdd(lower, length)

\* src/riemann.py Interval.partitions: method(lower, length); lower += length
RECURSIVE IntervalPartitions(_, _, _, _)
IntervalPartitions(r, lower, length, n) ==
    IF n <= 0 THEN <<>>
    ELSE <<RSumMethodCall(r, lower, length)>>
         \o IntervalPartitions(r, DAdd(lower, length), length, n - 1)

----------------------------------------------------------------------------
(* State                                                                   *)

VARIABLES
    variant,    \* which engine is called
    func,       \* the function argument
    args,       \* the Dimension (or Interval) arguments, in order
    methods,    \* riemann_sum: the methods argument
    pc,         \* position in the call
    k,          \* loop index over the dimensions
    delta,      \* the differential volume element accumulated so far
    values,     \* the per-dimension iterables handed to itertools.product
    pools,      \* the tuples itertools.product has made of them
    idx,        \* itertools.product's current index tuple
    acc,        \* the running total of sum()
    evaluated,  \* the index tuples func has been called on, in order
    result,     \* the value returned
    err,        \* the exception raised
    trap,       \* trapezoidal_rule's frame, when it is the caller
    gens,       \* the sample generators the caller holds, oldest first
    history     \* the outcomes of the calls the caller has made, oldest first

\* the caller's own state
cvars == <<gens, history>>

vars == <<variant, func, args, methods, pc, k, delta, values, pools, idx, acc,
          evaluated, result, err, trap, gens, history>>

None == [m |-> 0, e |-> 0, x |-> FALSE]

NoTrap == [on |-> FALSE, pc |-> "idle", i |-> 0, total |-> D(0), started |-> 0,
           result |-> None]

\* Bounds and partition counts drawn for the arguments
Lowers == {0 - 1, 0}
Uppers == {1, 2}
Counts == {0 - 1, 0} \cup (1 .. MaxN)

Rules == {LOWER, MIDDLE, UPPER}
Tags  == Rules \cup {BadTag}

\* Dimension(a, b, n, method)
DimsOf(rs) == [a : Lowers, b : Uppers, n : Counts, method : rs]

\* the axes of a two-dimensional call end at 1, the second spans [-1, 1]
NarrowOf(rs) == {d \in DimsOf(rs) : d.b = 1}

SecondOf(rs) == {d \in NarrowOf(rs) : d.a = 0 - 1}

ArgListsOf(rs) ==
    {<<>>}
    \cup {<<d>> : d \in DimsOf(rs)}
    \cup {<<d1, d2>> : d1 \in NarrowOf(rs), d2 \in SecondOf(rs)}
    \cup {<<d, d, d>> : d \in SecondOf(rs)}

\* A call whose dimension count is not the function's parameter count is
\* drawn over [0, 1] or [-1, 1] with the first rule or the last tag
Plain(as) ==
    \A j \in 1 .. Len(as) :
        as[j].b = 1 /\ as[j].method \in {LOWER, BadTag}
                    /\ (Len(as) = 1 => as[j].a = 0)

CallsOf(rs) ==
    {c \in [f : Funcs, as : ArgListsOf(rs)] :
        Len(c.as) = NParams(c.f) \/ Plain(c.as)}

\* src/riemann.py Interval.__init__: the length is computed at construction,
\* which raises for npartitions = 0, so no Interval object has that count
Interval(lower, upper, npartitions) ==
    [lower |-> ToDecimal(lower), upper |-> ToDecimal(upper),
     npartitions |-> npartitions,
     length |-> DDiv(DSub(ToDecimal(upper), ToDecimal(lower)), D(npartitions))]

Intervals == {Interval(a, b, n) : a \in Lowers, b \in {1}, n \in Counts \ {0}}

IntervalLists ==
    {<<>>} \cup {<<x>> : x \in Intervals}
           \cup {<<x, y>> : x \in Intervals, y \in {z \in Intervals : z.lower = D(0 - 1)}}

\* instances of Left / Middle / Right
Instance(r) == [r |-> r, cls |-> FALSE]

\* the classes themselves
Class(r) == [r |-> r, cls |-> TRUE]

MethodLists ==
    {<<>>} \cup {<<Instance(r)>> : r \in Rules}
           \cup {<<Instance(r1), Instance(r2)>> : r1, r2 \in Rules}

\* riemann_sum(function, intervals, methods)
RiemannSumCalls ==
    {c \in [f : Funcs, as : IntervalLists, ms : MethodLists] :
        \/ Len(c.as) = NParams(c.f) /\ Len(c.ms) = NParams(c.f)
        \/ /\ Len(c.as) # NParams(c.f) \/ Len(c.ms) # NParams(c.f)
           /\ \A j \in 1 .. Len(c.as) : c.as[j].lower = D(0 - 1)
           /\ \A j \in 1 .. Len(c.ms) : c.ms[j].r = LOWER}

Init ==
    /\ variant \in {"riemann", "summation", "_summation", "riemann_sum"}
    /\ CASE variant = "riemann"     ->
                \E c \in CallsOf(Rules) :
                    func = c.f /\ args = c.as /\ methods = <<>>
         [] variant = "summation"   ->
                \E c \in CallsOf(Tags) :
                    func = c.f /\ args = c.as /\ methods = <<>>
         [] variant = "_summation"  ->
                /\ func \in Funcs
                /\ args \in {<<d>> : d \in NarrowOf(Tags)}
                /\ methods = <<>>
         [] variant = "riemann_sum" ->
                \E c \in RiemannSumCalls :
                    func = c.f /\ args = c.as /\ methods = c.ms
    /\ pc = "call"
    /\ k = 1
    /\ delta = D(1)
    /\ values = <<>>
    /\ pools = <<>>
    /\ idx = <<>>
    /\ acc = D(0)
    /\ evaluated = <<>>
    /\ result = None
    /\ err = "none"
    /\ trap = NoTrap
    /\ gens = <<>>
    /\ history = <<>>

----------------------------------------------------------------------------
(* Steps of a call                                                         *)

Raise(e) ==
    /\ pc' = "raised"
    /\ err' = e

\* The entry of the engine: the arity checks (none in _summation.py)
ArityMismatchLax(f, as, ms, v) == FALSE

ArityMismatch(f, as, ms, v) ==
    CASE v = "riemann"     -> Len(as) # NParams(f)
      [] v = "summation"   -> Len(as) # NParams(f)
      [] v = "_summation"  -> FALSE
      [] v = "riemann_sum" -> Len(as) # NParams(f) \/ Len(ms) # NParams(f)

CheckArity ==
    /\ pc = "call"
    /\ IF ArityMismatch(func, args, methods, variant)
       THEN Raise("ValueError")
       ELSE /\ pc' = IF variant = "riemann_sum" THEN "reduce"
                     ELSE IF Len(args) = 0 THEN "sum" ELSE "dims"
            /\ err' = err
    /\ UNCHANGED <<variant, func, args, methods, k, delta, values, pools, idx,
                   acc, evaluated, result, trap>>
    /\ UNCHANGED cvars

\* dvar of one dimension: (b - a) / n, and (a - b) / n in _summation.py
DvarReversed(dim, v) ==
    DDiv(DSub(ToDecimal(dim.a), ToDecimal(dim.b)), D(dim.n))

Dvar(dim, v) ==
    LET a == ToDecimal(dim.a)
        b == ToDecimal(dim.b)
    IN IF v = "_summation" THEN DDiv(DSub(a, b), D(dim.n))
       ELSE DDiv(DSub(b, a), D(dim.n))

\* the iterable appended to values for one dimension
IterableOf(dim, v, dvar) ==
    [r |-> dim.method, lo |-> ToDecimal(dim.a), n |-> dim.n, d |-> dvar,
     cls |-> FALSE,
     items |-> IF v = "_summation" /\ KnownTag(dim.method)
               THEN Displacements(dim.method, ToDecimal(dim.a), dim.n, dvar)
               ELSE <<>>]

\* One pass of "for dim in args" of rsum / summation
\* delta *= dvar
ScaleKeep(dl, dvar) == dl

Scale(dl, dvar) == DMul(dl, dvar)

DimStep ==
    /\ pc = "dims"
    /\ k <= Len(args)
    /\ LET dim == args[k] IN
       IF dim.n = 0
       THEN /\ Raise(IF dim.b = dim.a THEN "InvalidOperation" ELSE "DivisionByZero")
            /\ UNCHANGED <<k, delta, values>>
       ELSE LET dvar == Dvar(dim, variant) IN
            IF variant = "_summation" /\ ~KnownTag(dim.method)
            THEN /\ Raise("ValueError")
                 /\ UNCHANGED <<k, delta, values>>
            ELSE /\ values' = Append(values, IterableOf(dim, variant, dvar))
                 /\ delta' = Scale(delta, dvar)
                 /\ k' = IF k = Len(args) THEN 1 ELSE k + 1
                 /\ pc' = IF k = Len(args) THEN "product" ELSE "dims"
                 /\ err' = err
    /\ UNCHANGED <<variant, func, args, methods, pools, idx, acc, evaluated,
                   result, trap>>
    /\ UNCHANGED cvars

\* functools.reduce(operator.mul, lengths) of a non-empty sequence
RECURSIVE ReduceMul(_, _)
ReduceMul(xs, i) ==
    IF i = 1 THEN xs[1].length ELSE DMul(ReduceMul(xs, i - 1), xs[i].length)

\* riemann_sum: delta = reduce(...); values = (x.partitions(m) for x, m in zip(...))
ReduceDelta ==
    /\ pc = "reduce"
    /\ IF Len(args) = 0
       THEN /\ Raise("TypeError")
            /\ UNCHANGED <<delta, values, k>>
       ELSE /\ delta' = ReduceMul(args, Len(args))
            /\ values' = [j \in 1 .. Len(args) |->
                            [r |-> methods[j].r, lo |-> args[j].lower,
                             n |-> args[j].npartitions, d |-> args[j].length,
                             cls |-> methods[j].cls, items |-> <<>>]]
            /\ k' = 1
            /\ pc' = "product"
            /\ err' = err
    /\ UNCHANGED <<variant, func, args, methods, pools, idx, acc, evaluated,
                   result, trap>>
    /\ UNCHANGED cvars

\* The exception an iterable raises when its first item is asked for:
\* ValueError from _partition_values on an unknown tag, TypeError from
\* calling a class Left / Right with (lower, length)
PoolRaisesNothing(it, v) == "none"

PoolRaises(it, v) ==
    CASE v = "summation" /\ it.n >= 1 /\ ~KnownTag(it.r) -> "ValueError"
      [] v = "riemann_sum" /\ it.n >= 1 /\ it.cls          -> "TypeError"
      [] OTHER                                             -> "none"

\* tuple(iterable) for one argument of itertools.product
PoolOf(it, v) ==
    CASE v = "riemann"     -> MethodPartitions(it.r, it.lo, it.n, it.d)
      [] v = "summation"   ->
            IF KnownTag(it.r) THEN PartitionValues(it.r, it.lo, it.n, it.d)
            ELSE <<>>
      [] v = "_summation"  -> it.items
      [] v = "riemann_sum" -> IntervalPartitions(it.r, it.lo, it.d, it.n)

\* itertools.product(*values) makes a tuple of each iterable, first to last,
\* before it yields anything
Materialize ==
    /\ pc = "product"
    /\ k <= Len(values)
    /\ LET exc == PoolRaises(values[k], variant) IN
       IF exc # "none"
       THEN /\ Raise(exc)
            /\ UNCHANGED <<k, pools, idx>>
       ELSE /\ pools' = Append(pools, PoolOf(values[k], variant))
            /\ k' = k + 1
            /\ err' = err
            /\ IF k < Len(values)
               THEN pc' = "product" /\ idx' = idx
               ELSE IF \E j \in 1 .. Len(pools') : Len(pools'[j]) = 0
                    THEN pc' = "finish" /\ idx' = idx
                    ELSE pc' = "sum" /\ idx' = [j \in 1 .. Len(values) |-> 1]
    /\ UNCHANGED <<variant, func, args, methods, delta, values, acc, evaluated,
                   result, trap>>
    /\ UNCHANGED cvars

\* The index tuple after ix in itertools.product's order (the last axis
\* runs fastest); <<>> when ix was the last one
AdvanceNoCarry(ix, ps, j) ==
    IF j = 0 THEN <<>>
    ELSE IF ix[j] < Len(ps[j]) THEN [ix EXCEPT ![j] = ix[j] + 1]
    ELSE <<>>

RECURSIVE Advance(_, _, _)
Advance(ix, ps, j) ==
    IF j = 0 THEN <<>>
    ELSE IF ix[j] < Len(ps[j]) THEN [ix EXCEPT ![j] = ix[j] + 1]
    ELSE Advance([ix EXCEPT ![j] = 1], ps, j - 1)

\* the tuple v that itertools.product yields at ix
TupleAtReversed(ix, ps) ==
    [j \in 1 .. Len(ix) |-> ps[Len(ix) + 1 - j][ix[Len(ix) + 1 - j]]]

TupleAt(ix, ps) == [j \in 1 .. Len(ix) |-> ps[j][ix[j]]]

\* What the call on one tuple gives: func(*v), and func(v) in _summation.py,
\* where only a constant function of one parameter yields a number
CallRaises(f, vt, v) ==
    IF v = "_summation"
    THEN f \notin {"zero1", "one1", "zerov"}
    ELSE ~Binds(f, vt)

\* sum(): total = total + value
AddDrop(total, y) == total

Add(total, y) == DAdd(total, y)

\* One turn of sum(func(*v) for v in itertools.product(*values))
Evaluate ==
    /\ pc = "sum"
    /\ LET vt == TupleAt(idx, pools) IN
       IF CallRaises(func, vt, variant)
       THEN /\ Raise("TypeError")
            /\ UNCHANGED <<idx, acc, evaluated>>
       ELSE LET nxt == Advance(idx, pools, Len(idx)) IN
            /\ acc' = Add(acc, Apply(func, vt))
            /\ evaluated' = Append(evaluated, idx)
            /\ idx' = nxt
            /\ pc' = IF nxt = <<>> THEN "finish" ELSE "sum"
            /\ err' = err
    /\ UNCHANGED <<variant, func, args, methods, k, delta, values, pools, result,
                   trap>>
    /\ UNCHANGED cvars

\* The value of the return statement
ReturnValueUnscaled(v, dl, total) == Normalize(total)

ReturnValueSum(v, dl, total) == Normalize(DAdd(dl, total))

ReturnValue(v, dl, total) ==
    CASE v = "riemann"     -> Normalize(DMul(dl, total))
      [] v = "summation"   -> DMul(dl, total)
      [] v = "_summation"  -> DMul(dl, total)
      [] v = "riemann_sum" -> Normalize(DMul(total, dl))

Return ==
    /\ pc = "finish"
    /\ result' = ReturnValue(variant, delta, acc)
    /\ pc' = "returned"
    /\ UNCHANGED <<variant, func, args, methods, k, delta, values, pools, idx,
                   acc, evaluated, err, trap>>
    /\ UNCHANGED cvars

Next ==
    \/ CheckArity
    \/ DimStep
    \/ ReduceDelta
    \/ Materialize
    \/ Evaluate
    \/ Return

Spec == Init /\ [][Next]_vars

\* The calls with matching arity over [-1, 1]
InitFair ==
    /\ Init
    /\ func \in {"k0", "id1", "xy"}
    /\ Len(args) = NParams(func)
    /\ variant = "riemann_sum" =>
          /\ Len(methods) = Len(args)
          /\ \A j \in 1 .. Len(args) : args[j].lower = D(0 - 1)
    /\ variant # "riemann_sum" =>
          \A j \in 1 .. Len(args) : args[j].a = 0 - 1 /\ args[j].b = 1

\* A call runs in one thread and none of its statements waits for anything:
\* a call that can take a step takes it
SpecFair == InitFair /\ [][Next]_vars /\ WF_vars(Next)

----------------------------------------------------------------------------
(* trapezoidal_rule                                                        *)

RECURSIVE Pow2(_)
Pow2(j) == IF j <= 0 THEN 1 ELSE 2 * Pow2(j - 1)

\* element i (from 0) of itertools.product((Left, Right), repeat=n): tuples of
\* the classes Left and Right, the last position running fastest
Combo(i, n) ==
    [j \in 1 .. n |->
        IF (i \div Pow2(n - j)) % 2 = 0 THEN Class(LOWER) ELSE Class(UPPER)]

InitTrap ==
    /\ variant = "riemann_sum"
    /\ func \in Funcs
    /\ args \in IntervalLists
    /\ methods = <<>>
    /\ pc = "idle"
    /\ k = 1
    /\ delta = D(1)
    /\ values = <<>>
    /\ pools = <<>>
    /\ idx = <<>>
    /\ acc = D(0)
    /\ evaluated = <<>>
    /\ result = None
    /\ err = "none"
    /\ trap = [on |-> TRUE, pc |-> "loop", i |-> 0, total |-> D(0),
               started |-> 0, result |-> None]
    /\ gens = <<>>
    /\ history = <<>>

\* The generator handed to sum() starts the next riemann_sum(function,
\* intervals, m)
TrapInvoke ==
    /\ trap.on /\ trap.pc = "loop" /\ pc = "idle"
    /\ methods' = Combo(trap.i, Len(args))
    /\ pc' = "call"
    /\ k' = 1
    /\ delta' = D(1)
    /\ values' = <<>>
    /\ pools' = <<>>
    /\ idx' = <<>>
    /\ acc' = D(0)
    /\ result' = None
    /\ trap' = [trap EXCEPT !.started = trap.started + 1]
    /\ UNCHANGED <<variant, func, args, evaluated, err>>
    /\ UNCHANGED cvars

\* sum() adds the value riemann_sum returned
TrapCollect ==
    /\ trap.on /\ trap.pc = "loop" /\ pc = "returned"
    /\ trap' = [trap EXCEPT !.total = DAdd(trap.total, result),
                            !.i = trap.i + 1,
                            !.pc = IF trap.i + 1 = Pow2(Len(args))
                                   THEN "finish" ELSE "loop"]
    /\ pc' = "idle"
    /\ UNCHANGED <<variant, func, args, methods, k, delta, values, pools, idx,
                   acc, evaluated, result, err>>
    /\ UNCHANGED cvars

\* return (sum(...) / ncombinations).normalize()
TrapReturn ==
    /\ trap.on /\ trap.pc = "finish"
    /\ trap' = [trap EXCEPT !.pc = "returned",
                            !.result = Normalize(DDiv(trap.total,
                                                      D(Pow2(Len(args)))))]
    /\ UNCHANGED <<variant, func, args, methods, pc, k, delta, values, pools,
                   idx, acc, evaluated, result, err>>
    /\ UNCHANGED cvars

\* An exception of riemann_sum leaves trapezoidal_rule as it is
TrapFinished == trap.on /\ (trap.pc = "returned" \/ pc = "raised")

NextTrap ==
    \/ TrapInvoke
    \/ CheckArity
    \/ ReduceDelta
    \/ Materialize
    \/ Return
    \/ TrapCollect
    \/ TrapReturn

SpecTrap == InitTrap /\ [][NextTrap]_vars

----------------------------------------------------------------------------
(* Vocabulary of the properties                                            *)

Finished == pc \in {"returned", "raised"}

\* the two engines named rsum
IsRsum == variant \in {"riemann", "summation"}

\* Dimensions as the data model has them: a positive count, one of the rules
WellFormed(as) ==
    \A j \in 1 .. Len(as) : as[j].n >= 1 /\ as[j].method \in Rules

Matched == Len(args) = NParams(func)

\* dx_k = (b_k - a_k) / n_k
Dx(dim) == DDiv(DSub(ToDecimal(dim.b), ToDecimal(dim.a)), D(dim.n))

\* the product of dx_1 .. dx_j, taken in dimension order
RECURSIVE ProdDx(_, _)
ProdDx(as, j) == IF j = 0 THEN D(1) ELSE DMul(ProdDx(as, j - 1), Dx(as[j]))

\* every tuple (s_1[i_1], .., s_j[i_j]) of the sample sequences ss, the last
\* index running fastest
RECURSIVE Tuples(_, _)
Tuples(ss, j) ==
    IF j = 0 THEN << <<>> >>
    ELSE LET P == Tuples(ss, j - 1)
             n == Len(ss[j])
         IN [t \in 1 .. Len(P) * n |->
                Append(P[((t - 1) \div n) + 1], ss[j][((t - 1) % n) + 1])]

\* the sum of f over the first j of the tuples ts
RECURSIVE SumF(_, _, _)
SumF(f, ts, j) ==
    IF j = 0 THEN D(0) ELSE DAdd(SumF(f, ts, j - 1), Apply(f, ts[j]))

\* the hyper-volume: the product of (upper_k - lower_k)
RECURSIVE Volume(_, _)
Volume(as, j) ==
    IF j = 0 THEN D(1)
    ELSE DMul(Volume(as, j - 1), DSub(ToDecimal(as[j].b), ToDecimal(as[j].a)))

----------------------------------------------------------------------------
(* C1 *)

\* C1: when rsum is called with a function of N parameters and N dimensions
\* with n_k >= 1, it returns (dx_1 * .. * dx_N) times the sum of the function
\* over all tuples of the per-dimension sample sequences (the value is taken
\* in the arithmetic of the decimal context).
C1_RsumIsDeltaTimesSum ==
    (IsRsum /\ Matched /\ WellFormed(args) /\ Finished) =>
        /\ pc = "returned"
        /\ Len(pools) = Len(args)
        /\ \A j \in 1 .. Len(args) : Len(pools[j]) = args[j].n
        /\ LET ts == Tuples(pools, Len(pools))
           IN DEq(result, DMul(ProdDx(args, Len(args)), SumF(func, ts, Len(ts))))

C1_Witness ==
    /\ variant = "riemann" /\ pc = "returned" /\ func = "xy"
    /\ Len(args) = 2 /\ args[1].n >= 2 /\ args[2].n >= 2
    /\ args[1].method # args[2].method
    /\ result.m # 0

----------------------------------------------------------------------------
(* C2 *)

\* C2: when the number of dimensions differs from the number of parameters of
\* the function, rsum and riemann_sum raise the arity ValueError at once: the
\* call never gets past its entry, and the function is never evaluated.
C2_ArityMismatchRaises ==
    (variant \in {"riemann", "summation", "riemann_sum"} /\ ~Matched) =>
        /\ pc \in {"call", "raised"}
        /\ evaluated = <<>>
        /\ pc = "raised" => err = "ValueError"
        /\ result = None

C2_Witness ==
    /\ pc = "raised" /\ err = "ValueError" /\ evaluated = <<>>
    /\ NParams(func) = 2 /\ Len(args) = 3
    /\ variant = "summation"

----------------------------------------------------------------------------
(* C3 *)

ConstantOne == {"k0", "one1", "one2"}

----------------------------------------------------------------------------
(* C4 *)

ZeroFuncs == {"zero1", "zero2", "zerov"}

\* C4 as stated: for the variadic function that returns 0, rsum returns 0
\* for every list of dimensions, whatever its length.
C4_AsStated ==
    (IsRsum /\ func = "zerov" /\ WellFormed(args) /\ Finished) =>
        pc = "returned" /\ DEq(result, D(0))

\* C4 (amended): for a function that returns 0 for all arguments, rsum
\* returns 0 for every list of dimensions whose length is the parameter
\* count of the function (1 for the variadic function), and raises the arity
\* ValueError for a list of any other length.
C4_ZeroWhenArityMatches ==
    (IsRsum /\ func \in ZeroFuncs /\ WellFormed(args) /\ Finished) =>
        IF Matched
        THEN pc = "returned" /\ DEq(result, D(0))
        ELSE pc = "raised" /\ err = "ValueError"

C4_Witness ==
    /\ IsRsum /\ func = "zerov" /\ pc = "returned"
    /\ Len(args) = 1 /\ args[1].n >= 2 /\ Len(evaluated) = args[1].n
    /\ DEq(result, D(0))

----------------------------------------------------------------------------
(* C5 *)

\* the point of [a, b] a rule samples when there is one partition
OnePoint(dim) ==
    LET a == ToDecimal(dim.a)
        b == ToDecimal(dim.b)
    IN CASE dim.method = LOWER  -> a
         [] dim.method = MIDDLE -> DDiv(DAdd(a, b), D(2))
         [] dim.method = UPPER  -> b

Half == [m |-> 5, e |-> 0 - 1, x |-> FALSE]

\* C5: with one dimension of one partition, rsum returns (b - a) * f(a) under
\* the lower rule, (b - a) * f((a + b) / 2) under the midpoint rule and
\* (b - a) * f(b) under the upper rule; for f(x) = x on [0, 1] that is 0, 1/2
\* and 1.
C5_SinglePartition ==
    (IsRsum /\ Matched /\ Len(args) = 1 /\ WellFormed(args) /\ Finished
        /\ args[1].n = 1) =>
        /\ pc = "returned"
        /\ DEq(result, DMul(DSub(ToDecimal(args[1].b), ToDecimal(args[1].a)),
                            Apply(func, <<OnePoint(args[1])>>)))
        /\ (func = "id1" /\ args[1].a = 0 /\ args[1].b = 1) =>
              DEq(result, CASE args[1].method = LOWER  -> D(0)
                            [] args[1].method = MIDDLE -> Half
                            [] args[1].method = UPPER  -> D(1))

C5_Witness ==
    /\ variant = "riemann" /\ pc = "returned" /\ func = "id1"
    /\ Len(args) = 1 /\ args[1] = [a |-> 0, b |-> 1, n |-> 1, method |-> MIDDLE]
    /\ DEq(result, Half)

----------------------------------------------------------------------------
(* C6 *)

\* f(x) = x over [0, 1], one dimension, a positive count and a known rule
IdentityOnUnit ==
    /\ IsRsum /\ func = "id1" /\ Len(args) = 1 /\ WellFormed(args)
    /\ args[1].a = 0 /\ args[1].b = 1

\* C6 as stated: for f(x) = x over [0, 1] the value of rsum under each rule
\* is, for every count n >= 1, the value it has for n = 1 (0, 1/2 and 1).
C6_AsStated ==
    (IdentityOnUnit /\ Finished) =>
        /\ pc = "returned"
        /\ DEq(result, CASE args[1].method = LOWER  -> D(0)
                         [] args[1].method = MIDDLE -> Half
                         [] args[1].method = UPPER  -> D(1))

\* C6 (amended): for f(x) = x over [0, 1] and every count n >= 1 whose
\* arithmetic is exact in the decimal context, rsum returns 1/2 under the
\* midpoint rule, (n - 1) / (2 n) under the lower rule and (n + 1) / (2 n)
\* under the upper rule; only the midpoint value is the same for every n.
C6_MidpointOnlyIsStable ==
    (IdentityOnUnit /\ Finished) =>
        /\ pc = "returned"
        /\ ~result.x =>
              LET twice == DMul(D(2 * args[1].n), result)
              IN /\ ~twice.x
                 /\ DEq(twice, CASE args[1].method = LOWER  -> D(args[1].n - 1)
                                 [] args[1].method = MIDDLE -> D(args[1].n)
                                 [] args[1].method = UPPER  -> D(args[1].n + 1))

C6_Witness ==
    /\ IdentityOnUnit /\ pc = "returned" /\ ~result.x
    /\ args[1].n = 2 /\ args[1].method = LOWER
    /\ DEq(result, [m |-> 25, e |-> 0 - 2, x |-> FALSE])

----------------------------------------------------------------------------
(* C8: the result against exact rational arithmetic                         *)

RECURSIVE Gcd(_, _)
Gcd(i, j) == IF j = 0 THEN Abs(i) ELSE Gcd(j, i % j)

\* the fraction p / q in lowest terms, q > 0
Rat(p, q) ==
    LET g == Gcd(Abs(p), Abs(q))
    IN [p |-> Sign(q) * (p \div g), q |-> Abs(q) \div g]

RAdd(u, v) == Rat(u.p * v.q + v.p * u.q, u.q * v.q)

RMul(u, v) == Rat(u.p * v.p, u.q * v.q)

\* f on exact fractions
RApply(f, v) ==
    CASE f \in {"k0", "one1", "one2"}        -> Rat(1, 1)
      [] f \in {"zero1", "zero2", "zerov"}   -> Rat(0, 1)
      [] f \in {"id1", "px"}                 -> v[1]
      [] f = "py"                            -> v[2]
      [] f = "lin1"                          -> RAdd(Rat(1, 1), RMul(Rat(2, 1), v[1]))
      [] f = "xy"                            -> RMul(v[1], v[2])

\* the exact sample i of a dimension: a + i dx, a + (2 i + 1) / 2 dx, a + (i + 1) dx
RSample(dim, i) ==
    LET dx == Rat(dim.b - dim.a, dim.n)
    IN CASE dim.method = LOWER  -> RAdd(Rat(dim.a, 1), RMul(Rat(i, 1), dx))
         [] dim.method = MIDDLE -> RAdd(Rat(dim.a, 1), RMul(Rat(2 * i + 1, 2), dx))
         [] dim.method = UPPER  -> RAdd(Rat(dim.a, 1), RMul(Rat(i + 1, 1), dx))

\* the exact sum of f over the tuples that extend the prefix v
RECURSIVE RSum(_, _, _)
RECURSIVE RSumFrom(_, _, _, _)
RSum(f, as, v) ==
    IF Len(v) = Len(as) THEN RApply(f, v) ELSE RSumFrom(f, as, v, 0)

RSumFrom(f, as, v, i) ==
    IF i >= as[Len(v) + 1].n THEN Rat(0, 1)
    ELSE RAdd(RSum(f, as, Append(v, RSample(as[Len(v) + 1], i))),
              RSumFrom(f, as, v, i + 1))

RECURSIVE RDelta(_, _)
RDelta(as, j) ==
    IF j = 0 THEN Rat(1, 1)
    ELSE RMul(RDelta(as, j - 1), Rat(as[j].b - as[j].a, as[j].n))

\* the exact value of the Riemann sum
Exact(f, as) == RMul(RDelta(as, Len(as)), RSum(f, as, <<>>))

\* a Decimal equals a fraction
DEqR(u, r) ==
    IF u.e >= 0 THEN u.m * Pow10(u.e) * r.q = r.p
    ELSE u.m * r.q = r.p * Pow10(0 - u.e)

----------------------------------------------------------------------------
(* C9 *)

\* the first dimension with a count >= 1 and an unknown rule tag; 0 if none
RECURSIVE FirstBad(_, _)
FirstBad(as, j) ==
    IF j > Len(as) THEN 0
    ELSE IF as[j].n >= 1 /\ as[j].method \notin Rules THEN j
    ELSE FirstBad(as, j + 1)

NoZeroCount(as) == \A j \in 1 .. Len(as) : as[j].n # 0

----------------------------------------------------------------------------
(* C10 *)

\* C10 as stated: when a dimension has a zero or negative count, rsum raises
\* before it evaluates the function and never returns a number.
C10_AsStated ==
    (IsRsum /\ \E j \in 1 .. Len(args) : args[j].n <= 0) =>
        /\ pc # "returned"
        /\ evaluated = <<>>

----------------------------------------------------------------------------
(* C7 *)

\* combination i with instances Left() and Right() in place of the classes
ComboInstances(i, n) ==
    [j \in 1 .. n |->
        IF (i \div Pow2(n - j)) % 2 = 0 THEN Instance(LOWER) ELSE Instance(UPPER)]

\* the value riemann_sum gives for instances ms of the method classes
RsValue(f, xs, ms) ==
    LET ss == [j \in 1 .. Len(xs) |->
                  IntervalPartitions(ms[j].r, xs[j].lower, xs[j].length,
                                     xs[j].npartitions)]
        ts == Tuples(ss, Len(ss))
    IN Normalize(DMul(SumF(f, ts, Len(ts)), ReduceMul(xs, Len(xs))))

\* the sum of the first c of the 2^N Riemann sums
RECURSIVE SumOfSums(_, _, _)
SumOfSums(f, xs, c) ==
    IF c = 0 THEN D(0)
    ELSE DAdd(SumOfSums(f, xs, c - 1),
              RsValue(f, xs, ComboInstances(c - 1, Len(xs))))

\* C7 as stated: for N intervals with n_k >= 1 and a function of N
\* parameters, trapezoidal_rule returns the mean of the 2^N Riemann sums that
\* assign Left or Right to each dimension.
C7_AsStated ==
    (TrapFinished /\ Matched /\ Len(args) >= 1
        /\ \A j \in 1 .. Len(args) : args[j].npartitions >= 1) =>
        /\ trap.pc = "returned"
        /\ DEq(trap.result,
               DDiv(SumOfSums(func, args, Pow2(Len(args))), D(Pow2(Len(args)))))

----------------------------------------------------------------------------
(* C11 *)

\* u <= v for two Decimals
DLe(u, v) ==
    LET e == Min(u.e, v.e)
    IN u.m * Pow10(u.e - e) <= v.m * Pow10(v.e - e)

\* a fraction lies between two others
RLe(u, v) == u.p * v.q <= v.p * u.q

\* the closed forms lower + i dx, lower + (2 i + 1) / 2 dx, lower + (i + 1) dx
\* evaluated in the decimal context, dx being the quotient (upper - lower) / n
SampleAt(dim, i) ==
    LET lo == ToDecimal(dim.a)
        dx == Dx(dim)
    IN CASE dim.method = LOWER  -> DAdd(lo, DMul(D(i), dx))
         [] dim.method = MIDDLE -> DAdd(lo, DMul(DDiv(D(2 * i + 1), D(2)), dx))
         [] dim.method = UPPER  -> DAdd(lo, DMul(D(i + 1), dx))

\* the endpoint lower + i dx of a subinterval
EndAt(dim, i) == DAdd(ToDecimal(dim.a), DMul(D(i), Dx(dim)))

\* C11: for a dimension with n >= 1 partitions and one of the three rules, the
\* sample sequence rsum makes of it has exactly n elements; its element at
\* index i is lower + i dx under the lower rule, lower + (2 i + 1) / 2 dx under
\* the midpoint rule and lower + (i + 1) dx under the upper rule, dx being
\* (upper - lower) / n; every sample lies in [lower + i dx, lower + (i + 1) dx],
\* and where no operation was inexact it is the exact rational value.
C11_SampleSequence ==
    IsRsum =>
        \A j \in 1 .. Len(pools) :
            (args[j].n >= 1 /\ args[j].method \in Rules) =>
                /\ Len(pools[j]) = args[j].n
                /\ \A i \in 0 .. args[j].n - 1 :
                      LET s == pools[j][i + 1] IN
                      /\ s = SampleAt(args[j], i)
                      /\ DLe(EndAt(args[j], i), s)
                      /\ DLe(s, EndAt(args[j], i + 1))
                      /\ ~s.x =>
                            /\ DEqR(s, RSample(args[j], i))
                            /\ RLe(RSample([args[j] EXCEPT !.method = LOWER], i),
                                   RSample(args[j], i))
                            /\ RLe(RSample(args[j], i),
                                   RSample([args[j] EXCEPT !.method = UPPER], i))

C11_Witness ==
    /\ variant = "riemann" /\ pc = "sum" /\ Len(pools) = 2
    /\ args[1] = [a |-> 0, b |-> 1, n |-> 2, method |-> MIDDLE]
    /\ args[2] = [a |-> 0 - 1, b |-> 1, n |-> 3, method |-> UPPER]
    /\ pools[1] = <<[m |-> 25, e |-> 0 - 2, x |-> FALSE],
                    [m |-> 75, e |-> 0 - 2, x |-> FALSE]>>
    /\ Len(pools[2]) = 3

----------------------------------------------------------------------------
(* C12 *)

\* C12: when the number of intervals handed to trapezoidal_rule differs from
\* the parameter count of the function, the first of the 2^N calls of
\* riemann_sum raises the arity ValueError: no second call is started, the
\* function is never evaluated and trapezoidal_rule returns nothing.
C12_FirstInvocationRaises ==
    (trap.on /\ ~Matched) =>
        /\ trap.started <= 1
        /\ trap.i = 0
        /\ trap.pc = "loop"
        /\ evaluated = <<>>
        /\ pc \in {"idle", "call", "raised"}
        /\ pc = "raised" => (err = "ValueError" /\ trap.started = 1)
        /\ pc = "idle" => trap.started = 0

C12_Witness ==
    /\ trap.on /\ pc = "raised" /\ err = "ValueError"
    /\ NParams(func) = 1 /\ Len(args) = 2 /\ Pow2(Len(args)) = 4
    /\ trap.started = 1 /\ evaluated = <<>>
    /\ methods = <<Class(LOWER), Class(LOWER)>>

----------------------------------------------------------------------------
(* C13 *)

\* the affine functions c0 + c1 x among the functions of one parameter
Affine == {"zero1", "one1", "id1", "lin1"}

\* <<c0, c1>>
Coef(f) ==
    CASE f = "zero1" -> <<0, 0>>
      [] f = "one1"  -> <<1, 0>>
      [] f = "id1"   -> <<0, 1>>
      [] f = "lin1"  -> <<1, 2>>

\* the integral (b - a) (c0 + c1 (a + b) / 2) of c0 + c1 x over [a, b]
Integral(f, dim) ==
    Rat((dim.b - dim.a) * (2 * Coef(f)[1] + Coef(f)[2] * (dim.a + dim.b)), 2)

\* an affine function of one parameter summed by the midpoint rule
AffineMidpoint ==
    /\ IsRsum /\ func \in Affine /\ Len(args) = 1 /\ WellFormed(args)
    /\ args[1].method = MIDDLE

----------------------------------------------------------------------------
(* C14 *)

\* the partition count of the j-th argument (Dimension.n, Interval.npartitions)
CountOf(j) ==
    IF variant = "riemann_sum" THEN args[j].npartitions ELSE args[j].n

\* the rule of the j-th argument is one of the three
RuleKnown(j) ==
    IF variant = "riemann_sum" THEN ~methods[j].cls /\ methods[j].r \in Rules
    ELSE args[j].method \in Rules

\* a call of rsum (or riemann_sum with at least one interval) with matching
\* arity, counts n_k >= 1 and rules among the three
Summable ==
    /\ variant \in {"riemann", "summation", "riemann_sum"}
    /\ Matched
    /\ variant = "riemann_sum" => (Len(methods) = Len(args) /\ Len(args) >= 1)
    /\ \A j \in 1 .. Len(args) : CountOf(j) >= 1 /\ RuleKnown(j)

\* n_1 * .. * n_j
RECURSIVE ProdN(_)
ProdN(j) == IF j = 0 THEN 1 ELSE ProdN(j - 1) * CountOf(j)

\* the index tuples of the Cartesian product
IndexTuples ==
    {ix \in [1 .. Len(args) -> 1 .. MaxN] :
        \A j \in 1 .. Len(args) : ix[j] <= CountOf(j)}

\* no index tuple has been evaluated twice, every evaluated tuple is one of
\* the product, and at the end each of them has been evaluated
EachTupleOnce ==
    Summable =>
        /\ \A p, q \in 1 .. Len(evaluated) : evaluated[p] = evaluated[q] => p = q
        /\ \A p \in 1 .. Len(evaluated) :
              /\ Len(evaluated[p]) = Len(args)
              /\ \A j \in 1 .. Len(args) :
                    evaluated[p][j] \in 1 .. CountOf(j)
        /\ pc \in {"finish", "returned"} =>
              /\ Len(evaluated) = ProdN(Len(args))
              /\ \A ix \in IndexTuples :
                    \E p \in 1 .. Len(evaluated) :
                        \A j \in 1 .. Len(args) : evaluated[p][j] = ix[j]
        /\ pc # "raised"

\* C14: every call of rsum with matching arity and counts n_k >= 1 returns,
\* and when it returns the function has been evaluated n_1 * .. * n_N times,
\* once on each tuple of the Cartesian product of the sample sequences.
C14_TerminatesEachTupleOnce ==
    /\ []EachTupleOnce
    /\ Summable ~> (pc = "returned" /\ Len(evaluated) = ProdN(Len(args)))

C14_Witness ==
    /\ variant = "summation" /\ pc = "returned" /\ Summable
    /\ Len(args) = 2 /\ args[1].n = 3 /\ args[2].n = 2
    /\ evaluated = << <<1, 1>>, <<1, 2>>, <<2, 1>>, <<2, 2>>, <<3, 1>>, <<3, 2>> >>

----------------------------------------------------------------------------
(* C15 *)

\* lower after i turns of "lower += length"
RECURSIVE RunningLower(_, _, _)
RunningLower(lower, length, i) ==
    IF i = 0 THEN lower ELSE DAdd(RunningLower(lower, length, i - 1), length)

\* sample i (from 0) of the j-th argument of the call, computed from that
\* argument alone: its bounds, its count and its rule
SampleOfArg(j, i) ==
    IF variant = "riemann_sum"
    THEN LET lo == RunningLower(args[j].lower, args[j].length, i)
         IN CASE methods[j].r = LOWER  -> lo
              [] methods[j].r = MIDDLE -> DAdd(lo, DDiv(args[j].length, D(2)))
              [] methods[j].r = UPPER  -> DAdd(lo, args[j].length)
    ELSE SampleAt(args[j], i)

\* rsum(f, *as) computed from the closed forms of the samples
RsumOf(f, as) ==
    LET ss == [j \in 1 .. Len(as) |->
                  [i \in 1 .. as[j].n |-> SampleAt(as[j], i - 1)]]
        ts == Tuples(ss, Len(ss))
    IN DMul(ProdDx(as, Len(as)), SumF(f, ts, Len(ts)))

\* upper - lower of a dimension
Width(dim) == DSub(ToDecimal(dim.b), ToDecimal(dim.a))

\* a finished call of rsum on two dimensions with f(x, y) = x or f(x, y) = y
Projection ==
    /\ IsRsum /\ func \in {"px", "py"} /\ Len(args) = 2 /\ WellFormed(args)
    /\ pc = "returned"

RECURSIVE TotalInOrder(_)
TotalInOrder(n) ==
    IF n = 0 THEN D(0)
    ELSE DAdd(TotalInOrder(n - 1),
              Apply(func, [j \in 1 .. Len(args) |->
                              SampleOfArg(j, evaluated[n][j] - 1)]))

\* the function has been called on the samples of the dimensions, in their
\* order
PassedInOrder ==
    variant \in {"riemann", "summation", "riemann_sum"} =>
        /\ \A n \in 1 .. Len(evaluated) : Len(evaluated[n]) = Len(args)
        /\ acc = TotalInOrder(Len(evaluated))

\* the value returned for the two projections
ProjectionResult ==
    Projection =>
        LET own   == IF func = "px" THEN 1 ELSE 2
            other == 3 - own
            swap  == RsumOf(IF func = "px" THEN "py" ELSE "px",
                            <<args[2], args[1]>>)
        IN /\ ~result.x =>
                 DEqR(result, RMul(Exact("id1", <<args[own]>>),
                                   Rat(args[other].b - args[other].a, 1)))
           /\ (~result.x /\ ~swap.x) => DEq(result, swap)

----------------------------------------------------------------------------
(* The caller: sample generators made from the objects, and repeated calls *)

\* Generators a caller holds at a time, and calls it makes
MaxGens == 2

MaxCalls == 2

\* structures.py Subintervals(a, b, k): the length is computed at construction
Subintervals(a, b, kk) ==
    [a |-> ToDecimal(a), b |-> ToDecimal(b), k |-> kk,
     length |-> DDiv(DSub(ToDecimal(b), ToDecimal(a)), D(kk))]

\* methods.py left, middle, right on an interval (interval[0], interval[1])
left(interval) == interval[1]

middleWhole(interval) == DAdd(interval[1], interval[2])

middle(interval) == DDiv(DAdd(interval[1], interval[2]), D(2))

right(interval) == interval[2]

\* the function of the Method object of a rule
MethodsFunc(r, interval) ==
    CASE r = LOWER  -> left(interval)
      [] r = MIDDLE -> middle(interval)
      [] r = UPPER  -> right(interval)

\* structures.py Subintervals.subintervals consumed to its end: the intervals
\* (lower, lower + length), lower += length
RECURSIVE SubintervalsOf(_, _, _)
SubintervalsOf(lower, length, n) ==
    IF n <= 0 THEN <<>>
    ELSE << <<lower, DAdd(lower, length)>> >>
         \o SubintervalsOf(DAdd(lower, length), length, n - 1)

\* structures.py Method.partitions: map(self.func, subintervals.subintervals())
StructPartitions(r, lower, length, n) ==
    LET ivs == SubintervalsOf(lower, length, n)
    IN [j \in 1 .. Len(ivs) |-> MethodsFunc(r, ivs[j])]

\* The local "lower" of a new generator: lower = self.a (structures.py),
\* lower, length = self.lower, self.length (src/riemann.py)
StartOfShared(own, gs) ==
    IF gs = <<>> THEN own ELSE gs[Len(gs)].lower

StartOf(own, gs) == own

\* The frame of the generator a caller makes of the j-th object:
\* dim.method.partitions(interval, dim.n, dvar) in riemann/riemann.py,
\* Method.partitions(dim.subintervals()) in structures.py,
\* interval.partitions(method) in src/riemann.py
GenOf(j, gs) ==
    CASE variant = "riemann" ->
            [kind |-> "Method.partitions", of |-> j, r |-> args[j].method,
             lower |-> ToDecimal(args[j].a), length |-> Dvar(args[j], variant),
             n |-> args[j].n, i |-> 0, out |-> <<>>, done |-> FALSE]
      [] variant = "structures" ->
            LET sub == Subintervals(args[j].a, args[j].b, args[j].n)
            IN [kind |-> "Subintervals.subintervals", of |-> j,
                r |-> args[j].method,
                lower |-> StartOf(sub.a, gs), length |-> sub.length,
                n |-> sub.k, i |-> 0, out |-> <<>>, done |-> FALSE]
      [] variant = "riemann_sum" ->
            [kind |-> "Interval.partitions", of |-> j, r |-> methods[j].r,
             lower |-> StartOf(args[j].lower, gs), length |-> args[j].length,
             n |-> args[j].npartitions, i |-> 0, out |-> <<>>, done |-> FALSE]

\* next(generator): the value yielded, and the frame after it
Yielded(g) ==
    CASE g.kind = "Method.partitions" ->
            MethodFunc(g.r, g.lower, g.i, g.length)
      [] g.kind = "Subintervals.subintervals" ->
            MethodsFunc(g.r, <<g.lower, DAdd(g.lower, g.length)>>)
      [] g.kind = "Interval.partitions" ->
            RSumMethodCall(g.r, g.lower, g.length)

Resumed(g) ==
    IF g.i >= g.n THEN [g EXCEPT !.done = TRUE]
    ELSE [g EXCEPT !.out = Append(g.out, Yielded(g)),
                   !.i = g.i + 1,
                   !.lower = IF g.kind = "Method.partitions" THEN g.lower
                             ELSE DAdd(g.lower, g.length)]

\* the caller is not inside a call
AtCaller == pc = "idle"

\* the caller makes a generator of one of its objects
NewGen ==
    /\ AtCaller
    /\ Len(gens) < MaxGens
    /\ \E j \in 1 .. Len(args) : gens' = Append(gens, GenOf(j, gens))
    /\ UNCHANGED <<variant, func, args, methods, pc, k, delta, values, pools,
                   idx, acc, evaluated, result, err, trap, history>>

\* the caller asks one of its generators for its next item
StepGen ==
    /\ AtCaller
    /\ \E g \in 1 .. Len(gens) :
          /\ ~gens[g].done
          /\ gens' = [gens EXCEPT ![g] = Resumed(gens[g])]
    /\ UNCHANGED <<variant, func, args, methods, pc, k, delta, values, pools,
                   idx, acc, evaluated, result, err, trap, history>>

\* the caller calls rsum / riemann_sum on its function and its objects
Call ==
    /\ AtCaller
    /\ variant \in {"riemann", "riemann_sum"}
    /\ Len(history) < MaxCalls
    /\ pc' = "call"
    /\ k' = 1
    /\ delta' = D(1)
    /\ values' = <<>>
    /\ pools' = <<>>
    /\ idx' = <<>>
    /\ acc' = D(0)
    /\ evaluated' = <<>>
    /\ result' = None
    /\ err' = "none"
    /\ UNCHANGED <<variant, func, args, methods, trap, gens, history>>

\* the call is over: the caller has its outcome
Collect ==
    /\ pc \in {"returned", "raised"}
    /\ history' = Append(history, [pc |-> pc, result |-> result, err |-> err])
    /\ pc' = "idle"
    /\ UNCHANGED <<variant, func, args, methods, k, delta, values, pools, idx,
                   acc, evaluated, result, err, trap, gens>>

\* One function of one parameter and one object with a count n >= 1
InitCaller ==
    /\ variant \in {"riemann", "structures", "riemann_sum"}
    /\ func \in {"id1"}
    /\ IF variant = "riemann_sum"
       THEN /\ args \in {<<x>> : x \in {y \in Intervals : y.npartitions >= 1}}
            /\ methods \in {<<Instance(r)>> : r \in Rules}
       ELSE /\ args \in {<<d>> : d \in {e \in NarrowOf(Rules) : e.n >= 1}}
            /\ methods = <<>>
    /\ pc = "idle"
    /\ k = 1
    /\ delta = D(1)
    /\ values = <<>>
    /\ pools = <<>>
    /\ idx = <<>>
    /\ acc = D(0)
    /\ evaluated = <<>>
    /\ result = None
    /\ err = "none"
    /\ trap = NoTrap
    /\ gens = <<>>
    /\ history = <<>>

NextCaller ==
    \/ NewGen
    \/ StepGen
    \/ Call
    \/ CheckArity
    \/ DimStep
    \/ ReduceDelta
    \/ Materialize
    \/ Evaluate
    \/ Return
    \/ Collect

SpecCaller == InitCaller /\ [][NextCaller]_vars

----------------------------------------------------------------------------
(* C16 *)

\* the j-th object as a dimension: bounds, count and rule
DimOf(j) ==
    IF variant = "riemann_sum"
    THEN [a |-> args[j].lower.m, b |-> args[j].upper.m,
          n |-> args[j].npartitions, method |-> methods[j].r]
    ELSE args[j]

\* a generator that keeps a running lower bound
Accumulating(g) ==
    g.kind \in {"Subintervals.subintervals", "Interval.partitions"}

----------------------------------------------------------------------------
(* C17 *)

\* the whole sample sequence of the object a generator was made of, computed
\* from the attributes of the object
FullOf(g) ==
    CASE g.kind = "Method.partitions" ->
            MethodPartitions(args[g.of].method, ToDecimal(args[g.of].a),
                             args[g.of].n, Dvar(args[g.of], variant))
      [] g.kind = "Subintervals.subintervals" ->
            LET sub == Subintervals(args[g.of].a, args[g.of].b, args[g.of].n)
            IN StructPartitions(args[g.of].method, sub.a, sub.length, sub.k)
      [] g.kind = "Interval.partitions" ->
            IntervalPartitions(methods[g.of].r, args[g.of].lower,
                               args[g.of].length, args[g.of].npartitions)

\* every generator has yielded the sequence of its object from index 0 on,
\* whatever the other generators of the object have yielded
FreshGenerators ==
    \A g \in 1 .. Len(gens) :
        LET full == FullOf(gens[g])
            out  == gens[g].out
        IN /\ gens[g].i = Len(out)
           /\ Len(out) <= Len(full)
           /\ \A i \in 1 .. Len(out) : out[i] = full[i]
           /\ gens[g].done => Len(out) = Len(full)

\* the sequences a call makes of the objects are the whole sequences, and
\* every call has the outcome of the first one
SameOutcome ==
    /\ (pc \in {"sum", "finish", "returned"} /\ variant = "riemann") =>
          pools = <<MethodPartitions(args[1].method, ToDecimal(args[1].a),
                                     args[1].n, Dvar(args[1], variant))>>
    /\ (pc \in {"sum", "finish", "returned"} /\ variant = "riemann_sum") =>
          pools = <<IntervalPartitions(methods[1].r, args[1].lower,
                                       args[1].length, args[1].npartitions)>>
    /\ \A p \in 1 .. Len(history) :
          /\ history[p] = history[1]
          /\ history[p].pc = "returned"
    /\ (pc = "returned" /\ history # <<>>) => result = history[1].result

\* C17: no state persists between calls: every generator made of an object
\* yields the sequence of the object from index 0 on, whatever the earlier,
\* possibly partially consumed, generators of the same object; no step
\* changes the function or an attribute of an object; and every call of rsum
\* with the same function and objects returns what the first call returned.
C17_NoStatePersists ==
    /\ [](FreshGenerators /\ SameOutcome)
    /\ [][func' = func /\ args' = args /\ methods' = methods]_vars

C17_Witness ==
    /\ variant = "riemann_sum" /\ Len(history) = 2 /\ Len(gens) = 2
    /\ args[1].npartitions = 3 /\ methods[1].r = UPPER
    /\ Len(gens[1].out) = 1 /\ ~gens[1].done
    /\ Len(gens[2].out) = 3
    /\ history[2] = history[1] /\ history[1].pc = "returned"

----------------------------------------------------------------------------
(* C18 *)

\* C18 as stated: for the same function and the same Dimension (a, b, n,
\* mode), with n >= 1 and one of the three modes, summation of _summation.py
\* makes the sample sequence _partition_values of summation.py makes, and
\* returns what rsum of summation.py returns.
C18_AsStated ==
    (variant = "_summation" /\ Len(args) = 1 /\ WellFormed(args)) =>
        /\ Len(pools) >= 1 =>
              /\ Len(pools[1]) = args[1].n
              /\ \A i \in 1 .. Len(pools[1]) :
                    DEq(pools[1][i],
                        PartitionValue(args[1].method, ToDecimal(args[1].a),
                                       i - 1, Dx(args[1])))
        /\ (Finished /\ NParams(func) = 1) =>
              /\ pc = "returned"
              /\ DEq(result, RsumOf(func, args))

====
